---- MODULE Spec2Model ----
(***************************************************************************)
(* Readiness polling and create orchestration of the shadeform_instance    *)
(* resource (terraform-provider-shadeform).                                *)
(*                                                                         *)
(* Time is counted in units of one poll interval of Create (15 s).  The    *)
(* Go runtime completes a select as soon as one of its channels is ready,  *)
(* so time passes only while the poller is parked in the select with no    *)
(* channel ready, or while it is blocked inside the HTTP call.  When       *)
(* several channels of the select are ready, Go picks one of them          *)
(* pseudo-randomly: the model leaves the choice open.                      *)
(***************************************************************************)
EXTENDS Integers, Sequences, FiniteSets, TLC

\* ------------------------------------------------------------------ bounds
MaxLen == 3          \* longest status sequence drawn as input
MaxInterval == 2     \* largest poll interval drawn as input
MaxDeadline == 5     \* largest deadline (create timeout) drawn as input

\* ------------------------------------------------------- program constants
PollIntervalSec == 15            \* 15*time.Second passed by Create
HttpTimeoutSec == 30             \* http.Client{Timeout: 30 * time.Second}
DefaultCreateTimeoutSec == 3600  \* defaultCreateTimeout = 60 * time.Minute

UnitSec == PollIntervalSec
PollInterval == PollIntervalSec \div UnitSec
HttpTimeout == HttpTimeoutSec \div UnitSec
DefaultCreateTimeout == DefaultCreateTimeoutSec \div UnitSec
MaxTime == MaxDeadline + HttpTimeout + 1

Ids == {"i-1", "i-2"}
Names == {"web"}

\* --------------------------------------------------------------- GetInstance
\* What one GetInstance call returns: an error, or the decoded JSON object, of
\* which the poller reads only info["status"].
ApiErr == [err |-> "API request failed", isStr |-> FALSE, status |-> ""]
Str(s) == [err |-> "", isStr |-> TRUE, status |-> s]
NoStr == [err |-> "", isStr |-> FALSE, status |-> ""]

Replies == {ApiErr, Str("pending"), Str("active"), Str("error"), NoStr}

\* status, _ := info["status"].(string)
StatusOfOrError(info) == IF info.isStr THEN info.status ELSE "error"
StatusOf(info) == IF info.isStr THEN info.status ELSE ""

IsTerminal(status) == status \in {"active", "error"}

EndsSession(reply) == reply.err # "" \/ IsTerminal(StatusOf(reply))

\* The status sequences drawn as input: the remote side answers the n-th call
\* with the n-th element and keeps answering with the last one.  A session
\* never reads past the first answer that ends it, so only the last element
\* may be one.
StatusSeqs ==
  {s \in UNION {[1..n -> Replies] : n \in 1..MaxLen} :
     \A i \in 1..(Len(s) - 1) : ~EndsSession(s[i])}

Min(a, b) == IF a < b THEN a ELSE b

ReplyAt(s, n) == s[Min(n, Len(s))]

\* ------------------------------------------------------------ return values
Running == [kind |-> "running", detail |-> ""]
RetNil == [kind |-> "nil", detail |-> ""]
RetCtx(e) == [kind |-> "ctx", detail |-> e]
RetApi(e) == [kind |-> "api", detail |-> e]
RetStateByName(name, id) == [kind |-> "state", detail |-> name]
RetState(name, id) == [kind |-> "state", detail |-> id]

\* The outcome of the specification that a return value of pollInstanceStatus
\* stands for.
Outcome(r) ==
  CASE r.kind = "nil" -> "Ready"
    [] r.kind = "state" -> "Failed"
    [] r.kind = "api" -> "FetchError"
    [] r.kind = "ctx" /\ r.detail = "context deadline exceeded" -> "TimedOut"
    [] r.kind = "ctx" /\ r.detail = "context canceled" -> "Cancelled"
    [] OTHER -> "none"

Outcomes == {"Ready", "Failed", "TimedOut", "Cancelled", "FetchError"}

VARIABLES
  id,          \* instance id given to the poll session
  name,        \* instance name given to the poll session
  interval,    \* poll interval of the session
  deadline,    \* time at which the context of the session expires
  responses,   \* what the remote side answers, call by call
  now,         \* time elapsed since the context and the ticker were created
  tickC,       \* ticker.C, a channel of capacity 1: number of buffered ticks
  ctxErr,      \* ctx.Err(): "" while the context is live
  pc,          \* "idle", "select", "fetch" (inside GetInstance), "done"
  ret,         \* what pollInstanceStatus returned
  fetchCount,  \* GetInstance calls started by the session
  returned,    \* GetInstance calls of the session that have returned
  fetchStart,  \* time the last GetInstance call started
  fetchCtx,    \* ctx.Err() when the last GetInstance call started
  late,        \* some GetInstance call was in flight when a tick came due
  cancelAt,    \* time the caller cancelled, -1 if it did not
  cancelParked,\* the caller cancelled while the select had no channel ready
  doneAt,      \* time pollInstanceStatus returned, -1 before
  planTimeout, \* timeouts { create = ... } of the plan
  planInterval,\* the poll interval the caller would like; no attribute holds it
  cpc,         \* position of Create: "none", "start", "poll", "done"
  calls,       \* API calls issued so far, in order
  diags,       \* error summaries added to resp.Diagnostics
  tfState,     \* id written to Terraform state, "" if none was written
  apiKeyCfg,   \* api_key of the provider configuration
  envKey,      \* value of the environment variable SHADEFORM_API_KEY
  ppc,         \* provider: "init", "valid", "rejected", "configured"
  clientKey,   \* apiKey of the Client that Configure built
  handler,     \* the resource handler that ran last, "none" before
  requests,    \* HTTP requests the handler sent, in order
  rdiags,      \* errors the provider or the handler added to its response
  written,     \* states the handler set with resp.State.Set, in order
  given,       \* what the handler was given: plan, state, answers of the API
  peerId,        \* a second poll session, of another instance: its id,
  peerDeadline,  \* the time its context expires,
  peerResponses, \* what the remote side answers it,
  peerTickC,     \* its own ticker.C,
  peerCtxErr,    \* its ctx.Err(),
  peerPc,        \* its position,
  peerRet,       \* what it returned,
  peerFetchCount,\* the GetInstance calls it started,
  peerFetchStart,\* and the time its last GetInstance call started
  mountedBy,     \* remote side: the instance the volume is mounted by, or ""
  pendingMount,  \* remote side: it accepted an instance that mounts the volume
  vdPc,          \* volume Delete: "idle", "start", "checked", "done"
  vdSeen,        \* the mounted_by its GetVolume reported
  vdDiags,       \* the errors it added
  mountAtDelete, \* mountedBy when DeleteVolume was sent, "-" if it was not
  ciPc,          \* the concurrent instance Create: "idle", "start", "done"
  ciVolumeIds,   \* volume_ids of its plan
  wire           \* the requests of the two handlers, in the order sent

pollVars == <<id, name, interval, deadline, responses, now, tickC, ctxErr, pc,
              ret, fetchCount, returned, fetchStart, fetchCtx, late,
              cancelAt, cancelParked, doneAt>>
createVars == <<planTimeout, planInterval, cpc, diags, tfState>>
crudVars == <<apiKeyCfg, envKey, ppc, clientKey, handler, requests, rdiags,
              written, given>>
peerVars == <<peerId, peerDeadline, peerResponses, peerTickC, peerCtxErr,
              peerPc, peerRet, peerFetchCount, peerFetchStart>>
mountVars == <<mountedBy, pendingMount, vdPc, vdSeen, vdDiags, mountAtDelete,
               ciPc, ciVolumeIds, wire>>
vars == <<pollVars, createVars, calls, crudVars, peerVars, mountVars>>

\* ----------------------------------------------------------------- timeouts
\* The timeouts block of the plan: absent, a duration, or a string that is no
\* duration.
TimeoutNull == [set |-> FALSE, ok |-> TRUE, value |-> 0]
PlanTimeouts ==
  {TimeoutNull, [set |-> TRUE, ok |-> FALSE, value |-> 0]}
  \cup {[set |-> TRUE, ok |-> TRUE, value |-> v] : v \in 0..MaxDeadline}

\* The schema of the resource has the timeouts block with create only; a poll
\* interval the caller would like has no attribute to go to.
IntervalNull == [set |-> FALSE, value |-> 0]
PlanIntervals == {IntervalNull, [set |-> TRUE, value |-> MaxInterval]}

\* plan.Timeouts.Create(ctx, defaultCreateTimeout)
TimeoutsCreateDefaultOnly(t, default) == default
TimeoutsCreate(t, default) == IF t.set THEN t.value ELSE default

\* ------------------------------------------------------------------- ticker
\* time.NewTicker(interval): the first tick is sent one interval after the
\* ticker was created, the next ones every interval.
TickAtImmediate(t, d) == t % d = 0
TickAt(t, d) == t > 0 /\ t % d = 0

\* A tick is sent without blocking: it is dropped when ticker.C is full.
SendTickQueued(c) == c + 1
SendTick(c) == 1

\* ------------------------------------------------------------------ context
\* context.WithTimeout(ctx, createTimeout): expired from the start when the
\* timeout is not positive.
CtxErrAtNoDeadline(t, dl, e) == e
CtxErrAt(t, dl, e) ==
  IF e = "" /\ t >= dl THEN "context deadline exceeded" ELSE e

\* case <-ctx.Done()
CtxReadyOnTick == ctxErr # "" /\ tickC = 1
CtxReady == ctxErr # ""

\* case <-ticker.C
TickReady == tickC = 1

\* ------------------------------------------------------------------ provider
\* The value of api_key in the provider block: not set, not known yet, or a
\* string.
ApiKeyNull == [kind |-> "null", value |-> ""]
ApiKeyUnknown == [kind |-> "unknown", value |-> ""]
ApiKeyValue(s) == [kind |-> "known", value |-> s]
ApiKeyCfgs == {ApiKeyNull, ApiKeyUnknown, ApiKeyValue(""), ApiKeyValue("key-cfg")}
EnvKeys == {"", "key-env"}

\* types.String: IsNull(), IsUnknown(), ValueString()
IsNull(v) == v.kind = "null"
IsUnknown(v) == v.kind = "unknown"
ValueString(v) == IF v.kind = "known" THEN v.value ELSE ""

\* NewClient(apiKey), with env the value os.Getenv("SHADEFORM_API_KEY") gives.
NewClientConfigOnly(apiKey, env) == apiKey
NewClient(apiKey, env) == IF apiKey = "" THEN env ELSE apiKey

\* No handler has been called yet.
NoInput == [plan |-> "", state |-> "", result |-> "", info |-> "", err |-> ""]

\* The provider as the poll session and Create find it: configured, no
\* handler of the other resources running.
ClientConfigured ==
  /\ apiKeyCfg = ApiKeyValue("key-cfg")
  /\ envKey = ""
  /\ ppc = "configured"
  /\ clientKey = NewClient(ValueString(apiKeyCfg), envKey)
  /\ handler = "none"
  /\ requests = <<>>
  /\ rdiags = <<>>
  /\ written = <<>>
  /\ given = NoInput

\* No volume Delete runs next to an instance Create.
NoVolumeRace ==
  /\ mountedBy = ""
  /\ pendingMount = FALSE
  /\ vdPc = "idle"
  /\ vdSeen = ""
  /\ vdDiags = <<>>
  /\ mountAtDelete = "-"
  /\ ciPc = "idle"
  /\ ciVolumeIds = {}
  /\ wire = <<>>

\* No second poll session runs.
PeerAbsent ==
  /\ peerId = ""
  /\ peerDeadline = 0
  /\ peerResponses = <<>>
  /\ peerTickC = 0
  /\ peerCtxErr = ""
  /\ peerPc = "idle"
  /\ peerRet = Running
  /\ peerFetchCount = 0
  /\ peerFetchStart = -1

\* ------------------------------------------------------ pollInstanceStatus
\* Entry: ticker := time.NewTicker(interval), on a context that expires at dl.
PollStart(i, n, d, dl, s) ==
  /\ id' = i
  /\ name' = n
  /\ interval' = d
  /\ deadline' = dl
  /\ responses' = s
  /\ now' = 0
  /\ tickC' = IF TickAt(0, d) THEN SendTick(0) ELSE 0
  /\ ctxErr' = CtxErrAt(0, dl, "")
  /\ pc' = "select"
  /\ ret' = Running
  /\ fetchCount' = 0
  /\ returned' = 0
  /\ fetchStart' = -1
  /\ fetchCtx' = ""
  /\ late' = FALSE
  /\ cancelAt' = -1
  /\ cancelParked' = FALSE
  /\ doneAt' = -1

\* One time unit passes.  The ticker and the deadline timer fire on their own;
\* the session itself only lets time pass where it blocks.
AdvanceSession ==
  /\ now < MaxTime
  /\ pc \in {"select", "fetch", "done"}
  /\ pc = "select" => ~(CtxReady \/ TickReady)
  /\ pc = "fetch" => now - fetchStart < HttpTimeout
  /\ now' = now + 1
  /\ IF pc = "done"
       THEN UNCHANGED <<tickC, ctxErr, late>>   \* ticker.Stop(); ctx unused
       ELSE /\ tickC' = IF TickAt(now + 1, interval) THEN SendTick(tickC) ELSE tickC
            /\ ctxErr' = CtxErrAt(now + 1, deadline, ctxErr)
            /\ late' = (late \/ (pc = "fetch" /\ TickAt(now + 1, interval)))
  /\ UNCHANGED <<id, name, returned, interval, deadline, responses, pc, ret, fetchCount,
                 fetchStart, fetchCtx, cancelAt, cancelParked, doneAt,
                 createVars, crudVars, calls>>

Advance == AdvanceSession /\ UNCHANGED <<peerVars, mountVars>>

\* The caller cancels the context (process shutdown, ^C).
Cancel ==
  /\ pc \in {"select", "fetch"}
  /\ ctxErr = ""
  /\ ctxErr' = "context canceled"
  /\ cancelAt' = now
  /\ cancelParked' = (pc = "select" /\ ~TickReady)
  /\ UNCHANGED <<id, name, returned, interval, deadline, responses, now, tickC, pc, ret,
                 fetchCount, fetchStart, fetchCtx, late, doneAt, createVars, crudVars, peerVars, mountVars,
                 calls>>

\* case <-ctx.Done(): return ctx.Err()
PollCtxDone ==
  /\ pc = "select"
  /\ CtxReady
  /\ ret' = RetCtx(ctxErr)
  /\ pc' = "done"
  /\ doneAt' = now
  /\ UNCHANGED <<id, name, returned, interval, deadline, responses, now, tickC, ctxErr,
                 fetchCount, fetchStart, fetchCtx, late, cancelAt,
                 cancelParked, createVars, crudVars, peerVars, mountVars, calls>>

\* info, err := c.GetInstance(id) is a plain call: the session is inside it,
\* and nowhere else, until it returns.
PcFetchInBackground == "select"
PcInFetch == "fetch"

\* case <-ticker.C: the call c.GetInstance(id) starts.
PollTick ==
  /\ pc = "select"
  /\ TickReady
  /\ tickC' = 0
  /\ pc' = PcInFetch
  /\ fetchCount' = fetchCount + 1
  /\ fetchStart' = now
  /\ fetchCtx' = ctxErr
  /\ calls' = Append(calls, <<"GetInstance", id>>)
  /\ UNCHANGED <<id, name, returned, interval, deadline, responses, now, ctxErr, ret,
                 late, cancelAt, cancelParked, doneAt, createVars, crudVars, peerVars, mountVars>>

\* What the session does with the result of GetInstance: the value it returns,
\* or Running when the loop goes on to the next select.
AfterFetchRetry(info, n, i) ==
  IF info.err # "" THEN Running
  ELSE IF StatusOf(info) = "active" THEN RetNil
  ELSE IF StatusOf(info) = "error" THEN RetState(n, i)
  ELSE Running
AfterFetchWrongSentinel(info, n, i) ==
  IF info.err # "" THEN RetApi(info.err)
  ELSE IF StatusOf(info) = "running" THEN RetNil
  ELSE IF StatusOf(info) = "error" THEN RetState(n, i)
  ELSE Running
AfterFetchNotPending(info, n, i) ==
  IF info.err # "" THEN RetApi(info.err)
  ELSE IF StatusOf(info) = "error" THEN RetState(n, i)
  ELSE IF StatusOf(info) # "pending" THEN RetNil
  ELSE Running
AfterFetch(info, n, i) ==
  IF info.err # "" THEN RetApi(info.err)
  ELSE IF StatusOf(info) = "active" THEN RetNil
  ELSE IF StatusOf(info) = "error" THEN RetState(n, i)
  ELSE Running

\* The position of the session after a step that produced r.
PcAfterNoReturn(r) == "select"
PcAfter(r) == IF r = Running THEN "select" ELSE "done"

\* GetInstance returns and the rest of the ticker.C case runs.
PollGetInstanceReturn ==
  /\ pc = "fetch"
  /\ returned' = returned + 1
  /\ LET r == AfterFetch(ReplyAt(responses, fetchCount), name, id) IN
       /\ ret' = r
       /\ pc' = PcAfter(r)
       /\ doneAt' = IF r = Running THEN doneAt ELSE now
  /\ UNCHANGED <<id, name, interval, deadline, responses, now, tickC, ctxErr,
                 fetchCount, fetchStart, fetchCtx, late, cancelAt,
                 cancelParked, createVars, crudVars, peerVars, mountVars, calls>>

PollNext == Advance \/ Cancel \/ PollCtxDone \/ PollTick \/ PollGetInstanceReturn

\* ---------------------------------------------- a poll session on its own
Init ==
  /\ id \in Ids
  /\ name \in Names
  /\ interval \in 1..MaxInterval
  /\ deadline \in 0..MaxDeadline
  /\ responses \in StatusSeqs
  /\ now = 0
  /\ tickC = IF TickAt(0, interval) THEN SendTick(0) ELSE 0
  /\ ctxErr = CtxErrAt(0, deadline, "")
  /\ pc = "select"
  /\ ret = Running
  /\ fetchCount = 0
  /\ returned = 0
  /\ fetchStart = -1
  /\ fetchCtx = ""
  /\ late = FALSE
  /\ cancelAt = -1
  /\ cancelParked = FALSE
  /\ doneAt = -1
  /\ planTimeout = TimeoutNull
  /\ planInterval = IntervalNull
  /\ cpc = "none"
  /\ calls = <<>>
  /\ diags = <<>>
  /\ tfState = ""
  /\ ClientConfigured
  /\ PeerAbsent
  /\ NoVolumeRace

Next == PollNext

Spec == Init /\ [][Next]_vars

\* The poll session under the scheduling the Go runtime gives it: time passes,
\* every GetInstance call returns, a tick that stays buffered is received, and
\* the select, which picks among its ready cases at random, does not pass over
\* ctx.Done() forever.
Fairness ==
  /\ WF_vars(Advance)
  /\ WF_vars(PollGetInstanceReturn)
  /\ WF_vars(PollTick)
  /\ SF_vars(PollCtxDone)

SpecLive == Init /\ [][Next]_vars /\ Fairness

\* ----------------------------------------------------- InstanceResource.Create
\* CreateInstance returns an error, a response without a string "id", or the
\* id of the new instance.
CreateReplies ==
  {[err |-> "API request failed", hasId |-> FALSE, id |-> ""],
   [err |-> "", hasId |-> FALSE, id |-> ""]}
  \cup {[err |-> "", hasId |-> TRUE, id |-> i] : i \in Ids}

\* resp.Diagnostics.AddError(summary, detail); the detail is kept as the list
\* of the pieces it is formatted from.
Diag(summary, detail) == [summary |-> summary, detail |-> detail]

\* err.Error() of what pollInstanceStatus returned.
ErrText(r) ==
  IF r.kind = "state" THEN <<"instance", r.detail, "is in error state">>
  ELSE <<r.detail>>

\* The diagnostic Create adds when pollInstanceStatus returned the error r.
PollErrorDiag(i, r) ==
  Diag("Instance not ready",
       <<"timed out waiting for", i, "to become active:">> \o ErrText(r))

\* The API calls Create makes when pollInstanceStatus returned an error: none,
\* it adds the diagnostic and returns.
CallsOnPollErrorDelete(i) == <<<<"DeleteInstance", i>>>>
CallsOnPollError(i) == <<>>

\* instanceID, ok := result["id"].(string)
HasStringIdAlways(result) == TRUE
HasStringId(result) == result.hasId

\* Create up to the select of pollInstanceStatus: the CreateInstance call, the
\* id taken from its response, the create timeout, the context and the ticker.
CreateInstanceCall ==
  /\ cpc = "start"
  /\ UNCHANGED <<crudVars, peerVars, mountVars>>
  /\ calls' = Append(calls, <<"CreateInstance", "">>)
  /\ \E result \in CreateReplies :
       IF result.err # "" \/ ~HasStringId(result)
         THEN /\ diags' = Append(diags,
                   Diag("Error creating instance",
                        IF result.err # ""
                          THEN <<"Could not create instance, unexpected error:", result.err>>
                          ELSE <<"Could not extract instance ID from response">>))
              /\ cpc' = "done"
              /\ UNCHANGED <<pollVars, planTimeout, planInterval, tfState>>
       ELSE IF ~planTimeout.ok
         THEN /\ diags' = Append(diags, Diag("Timeout Cannot Be Parsed", <<>>))
              /\ cpc' = "done"
              /\ UNCHANGED <<pollVars, planTimeout, planInterval, tfState>>
       ELSE /\ PollStart(result.id, name, PollInterval,
                         TimeoutsCreate(planTimeout, DefaultCreateTimeout),
                         responses)
            /\ cpc' = "poll"
            /\ UNCHANGED <<planTimeout, planInterval, diags, tfState>>

\* Create after pollInstanceStatus returned: the error of a failed poll, or
\* the GetInstance call that reads the instance back and the state it sets.
CreatePollReturned ==
  /\ cpc = "poll"
  /\ UNCHANGED <<crudVars, peerVars, mountVars>>
  /\ pc = "done"
  /\ cpc' = "done"
  /\ IF ret # RetNil
       THEN /\ diags' = Append(diags, PollErrorDiag(id, ret))
            /\ calls' = calls \o CallsOnPollError(id)
            /\ UNCHANGED tfState
       ELSE /\ calls' = Append(calls, <<"GetInstance", id>>)
            /\ \E info \in {ApiErr, Str("active")} :
                 IF info.err # ""
                   THEN /\ diags' = Append(diags,
                                Diag("Error reading instance after create",
                                     <<"Could not read instance, unexpected error:", info.err>>))
                        /\ UNCHANGED tfState
                   ELSE /\ tfState' = id
                        /\ UNCHANGED diags
  /\ UNCHANGED <<pollVars, planTimeout, planInterval>>

InitCreate ==
  /\ id = ""
  /\ name \in Names
  /\ interval = PollInterval
  /\ deadline = 0
  /\ responses \in StatusSeqs
  /\ now = 0
  /\ tickC = 0
  /\ ctxErr = ""
  /\ pc = "idle"
  /\ ret = Running
  /\ fetchCount = 0
  /\ returned = 0
  /\ fetchStart = -1
  /\ fetchCtx = ""
  /\ late = FALSE
  /\ cancelAt = -1
  /\ cancelParked = FALSE
  /\ doneAt = -1
  /\ planTimeout \in PlanTimeouts
  /\ planInterval \in PlanIntervals
  /\ cpc = "start"
  /\ calls = <<>>
  /\ diags = <<>>
  /\ tfState = ""
  /\ ClientConfigured
  /\ PeerAbsent
  /\ NoVolumeRace

NextCreate == CreateInstanceCall \/ PollNext \/ CreatePollReturned

SpecCreate == InitCreate /\ [][NextCreate]_vars

\* ------------- InstanceResource.Create of internal/resources/instance/instance.go
\* This Create has no readiness loop: CreateInstance, one GetInstance for the
\* new id, and the state is set from whatever that call returned.
CreateWithoutPoll ==
  /\ cpc = "start"
  /\ UNCHANGED <<crudVars, peerVars, mountVars>>
  /\ cpc' = "done"
  /\ \E result \in CreateReplies :
       IF result.err # "" \/ ~result.hasId
         THEN /\ calls' = Append(calls, <<"CreateInstance", "">>)
              /\ diags' = Append(diags,
                   Diag("Error creating instance",
                        IF result.err # ""
                          THEN <<"Could not create instance, unexpected error:", result.err>>
                          ELSE <<"Could not extract instance ID from response">>))
              /\ UNCHANGED <<id, tfState>>
         ELSE LET info == ReplyAt(responses, 1) IN
              /\ calls' = calls \o <<<<"CreateInstance", "">>, <<"GetInstance", result.id>>>>
              /\ id' = result.id
              /\ IF info.err # ""
                   THEN /\ diags' = Append(diags,
                             Diag("Error reading instance after create",
                                  <<"Could not read instance, unexpected error:", info.err>>))
                        /\ UNCHANGED tfState
                   ELSE /\ tfState' = result.id
                        /\ UNCHANGED diags
  /\ UNCHANGED <<name, returned, interval, deadline, responses, now, tickC, ctxErr, pc,
                 ret, fetchCount, fetchStart, fetchCtx, late, cancelAt,
                 cancelParked, doneAt, planTimeout, planInterval>>

InitCreateWithoutPoll == InitCreate /\ planTimeout = TimeoutNull

NextCreateWithoutPoll == CreateWithoutPoll

SpecCreateWithoutPoll == InitCreateWithoutPoll /\ [][NextCreateWithoutPoll]_vars

\* ------------------------------------------- provider and one-shot handlers
\* ShadeformProvider.ValidateConfig
ValidateConfig ==
  /\ ppc = "init"
  /\ IF IsNull(apiKeyCfg) \/ IsUnknown(apiKeyCfg)
       THEN /\ ppc' = "rejected"
            /\ rdiags' = <<Diag("Missing API Key", <<"api_key">>)>>
       ELSE /\ ppc' = "valid"
            /\ UNCHANGED rdiags
  /\ UNCHANGED <<apiKeyCfg, envKey, clientKey, handler, requests, written, given,
                 pollVars, createVars, calls, peerVars, mountVars>>

\* ShadeformProvider.Configure; Terraform configures a provider only when its
\* configuration validated.
Configure ==
  /\ ppc = "valid"
  /\ clientKey' = NewClient(ValueString(apiKeyCfg), envKey)
  /\ ppc' = "configured"
  /\ UNCHANGED <<apiKeyCfg, envKey, handler, requests, rdiags, written, given,
                 pollVars, createVars, calls, peerVars, mountVars>>

\* A response field that is missing, null or not of the type asked for.
Absent == "<absent>"
\* types.StringNull()
Null == "<null>"
NoBody == {}
ApiFailure == "API request failed"

\* Client.makeRequest: one HTTP request carrying the header X-API-KEY, sent
\* once; err is the error the call returns, "" for nil.
MakeRequest(key, op, rid, body, err) ==
  [op |-> op, id |-> rid, body |-> body, key |-> key, err |-> err]

\* if err != nil { resp.Diagnostics.AddError(...); return }
ReturnsNever(err) == FALSE
Returns(err) == err # ""

\* if v, ok := info["field"].(string); ok { model.Field = v }
StringOrOld(field, old) == old
StringOr(field, old) == IF field # Absent THEN field ELSE old

\* The mounted_by of the model: the string of the response, or null.
MountedBy(info) == IF info.mounted_by # Absent THEN info.mounted_by ELSE Null

InstNames == {"web", "db"}
VolIds == {"v-1"}
InstanceStates == [id : Ids, name : InstNames, cloud : {"aws"}]
InstancePlans == [name : InstNames, cloud : {"aws"}]
VolumeStates == [id : VolIds, name : {"data"}, mounted_by : {Null, "i-1"}]
VolumePlans == [name : {"data"}]

\* Errors of the calls that return no body.
NoResponseErrs == {"", ApiFailure}

\* What GetInstance and GetVolume return to the one-shot handlers.
InstanceInfos ==
  {[err |-> ApiFailure, name |-> Absent, cloud |-> Absent]}
  \cup [err : {""}, name : InstNames \cup {Absent}, cloud : {"gcp", Absent}]
VolumeInfos ==
  {[err |-> ApiFailure, name |-> Absent, mounted_by |-> Absent]}
  \cup [err : {""}, name : {"data", Absent}, mounted_by : {Absent, "", "i-1"}]
CreateVolumeReplies ==
  {[err |-> ApiFailure, hasId |-> FALSE, id |-> ""],
   [err |-> "", hasId |-> FALSE, id |-> ""]}
  \cup {[err |-> "", hasId |-> TRUE, id |-> v] : v \in VolIds}

ErrDiag(summary, err) ==
  IF err # "" THEN <<Diag(summary, <<"unexpected error:", err>>)>> ELSE <<>>

HandlerFrame ==
  /\ ppc = "configured"
  /\ UNCHANGED <<apiKeyCfg, envKey, ppc, clientKey, pollVars, createVars, calls, peerVars, mountVars>>

\* InstanceResource.Read
InstanceRead ==
  /\ HandlerFrame
  /\ handler' = "InstanceRead"
  /\ \E state \in InstanceStates, info \in InstanceInfos :
       /\ given' = [plan |-> "", state |-> state, result |-> "", info |-> info, err |-> ""]
       /\ requests' = <<MakeRequest(clientKey, "GetInstance", state.id, NoBody, info.err)>>
       /\ rdiags' = ErrDiag("Error reading instance", info.err)
       /\ written' =
            IF Returns(info.err) THEN <<>>
            ELSE <<[id |-> state.id,
                    name |-> StringOr(info.name, state.name),
                    cloud |-> StringOr(info.cloud, state.cloud)]>>

\* InstanceResource.Update
InstanceUpdate ==
  /\ HandlerFrame
  /\ handler' = "InstanceUpdate"
  /\ \E plan \in InstancePlans, state \in InstanceStates,
        err \in NoResponseErrs, info \in InstanceInfos :
       LET body == IF plan.name # state.name
                     THEN {<<"name", plan.name>>} ELSE {}
           stop1 == Returns(err)
           stop2 == stop1 \/ Returns(info.err)
       IN
       /\ given' = [plan |-> plan, state |-> state, result |-> "", info |-> info, err |-> err]
       /\ requests' =
            <<MakeRequest(clientKey, "UpdateInstance", state.id, body, err)>>
            \o (IF stop1 THEN <<>>
                ELSE <<MakeRequest(clientKey, "GetInstance", state.id, NoBody, info.err)>>)
       /\ rdiags' =
            ErrDiag("Error updating instance", err)
            \o (IF stop1 THEN <<>>
                ELSE ErrDiag("Error reading instance after update", info.err))
       /\ written' =
            IF stop2 THEN <<>>
            ELSE <<[id |-> state.id,
                    name |-> StringOr(info.name, plan.name),
                    cloud |-> StringOr(info.cloud, plan.cloud)]>>

\* InstanceResource.Delete
InstanceDelete ==
  /\ HandlerFrame
  /\ handler' = "InstanceDelete"
  /\ \E state \in InstanceStates, err \in NoResponseErrs :
       /\ given' = [plan |-> "", state |-> state, result |-> "", info |-> "", err |-> err]
       /\ requests' = <<MakeRequest(clientKey, "DeleteInstance", state.id, NoBody, err)>>
       /\ rdiags' = ErrDiag("Error deleting instance", err)
       /\ written' = <<>>

\* VolumeResource.Create
VolumeCreate ==
  /\ HandlerFrame
  /\ handler' = "VolumeCreate"
  /\ \E plan \in VolumePlans, result \in CreateVolumeReplies, info \in VolumeInfos :
       LET stop1 == Returns(result.err) \/ ~result.hasId
           stop2 == stop1 \/ Returns(info.err)
       IN
       /\ given' = [plan |-> plan, state |-> "", result |-> result, info |-> info, err |-> ""]
       /\ requests' =
            <<MakeRequest(clientKey, "CreateVolume", "", {<<"name", plan.name>>}, result.err)>>
            \o (IF stop1 THEN <<>>
                ELSE <<MakeRequest(clientKey, "GetVolume", result.id, NoBody, info.err)>>)
       /\ rdiags' =
            (IF result.err # "" THEN ErrDiag("Error creating volume", result.err)
             ELSE IF ~result.hasId
               THEN <<Diag("Error creating volume",
                           <<"Could not extract volume ID from response">>)>>
             ELSE <<>>)
            \o (IF stop1 THEN <<>>
                ELSE ErrDiag("Error reading volume after create", info.err))
       /\ written' =
            IF stop2 THEN <<>>
            ELSE <<[id |-> result.id,
                    name |-> StringOr(info.name, plan.name),
                    mounted_by |-> MountedBy(info)]>>

\* VolumeResource.Read
VolumeRead ==
  /\ HandlerFrame
  /\ handler' = "VolumeRead"
  /\ \E state \in VolumeStates, info \in VolumeInfos :
       /\ given' = [plan |-> "", state |-> state, result |-> "", info |-> info, err |-> ""]
       /\ requests' = <<MakeRequest(clientKey, "GetVolume", state.id, NoBody, info.err)>>
       /\ rdiags' = ErrDiag("Error reading volume", info.err)
       /\ written' =
            IF Returns(info.err) THEN <<>>
            ELSE <<[id |-> state.id,
                    name |-> StringOr(info.name, state.name),
                    mounted_by |-> MountedBy(info)]>>

\* The requests of VolumeResource.Update: the API has no volume update, the
\* handler calls no method of the client.
VolumeUpdateRequestsPost(key, plan) ==
  <<MakeRequest(key, "UpdateVolume", plan.id, {<<"name", plan.name>>}, "")>>
VolumeUpdateRequests(key, plan) == <<>>

\* VolumeResource.Update
VolumeUpdate ==
  /\ HandlerFrame
  /\ handler' = "VolumeUpdate"
  /\ \E plan \in VolumeStates :
       /\ given' = [plan |-> plan, state |-> "", result |-> "", info |-> "", err |-> ""]
       /\ requests' = VolumeUpdateRequests(clientKey, plan)
       /\ rdiags' = <<>>
       /\ written' = <<plan>>

\* if mountedBy, ok := volumeInfo["mounted_by"]; ok && mountedBy != nil {
\*   if mountedByStr, ok := mountedBy.(string); ok && mountedByStr != "" {
IsMountedNever(info) == FALSE
IsMounted(info) == info.mounted_by \notin {Absent, ""}

\* VolumeResource.Delete
VolumeDelete ==
  /\ HandlerFrame
  /\ handler' = "VolumeDelete"
  /\ \E state \in VolumeStates, info \in VolumeInfos, err \in NoResponseErrs :
       LET stop1 == Returns(info.err)
           mounted == IsMounted(info)
           stop2 == stop1 \/ mounted
       IN
       /\ given' = [plan |-> "", state |-> state, result |-> "", info |-> info, err |-> err]
       /\ requests' =
            <<MakeRequest(clientKey, "GetVolume", state.id, NoBody, info.err)>>
            \o (IF stop2 THEN <<>>
                ELSE <<MakeRequest(clientKey, "DeleteVolume", state.id, NoBody, err)>>)
       /\ rdiags' =
            ErrDiag("Error reading volume before delete", info.err)
            \o (IF stop1 THEN <<>>
                ELSE IF mounted
                  THEN <<Diag("Error deleting volume",
                              <<"Cannot delete volume", state.id,
                                "because it is mounted by instance",
                                info.mounted_by>>)>>
                ELSE ErrDiag("Error deleting volume", err))
       /\ written' = <<>>

InitCrud ==
  /\ id = ""
  /\ name \in Names
  /\ interval = PollInterval
  /\ deadline = 0
  /\ responses = <<Str("active")>>
  /\ now = 0
  /\ tickC = 0
  /\ ctxErr = ""
  /\ pc = "idle"
  /\ ret = Running
  /\ fetchCount = 0
  /\ returned = 0
  /\ fetchStart = -1
  /\ fetchCtx = ""
  /\ late = FALSE
  /\ cancelAt = -1
  /\ cancelParked = FALSE
  /\ doneAt = -1
  /\ planTimeout = TimeoutNull
  /\ planInterval = IntervalNull
  /\ cpc = "none"
  /\ calls = <<>>
  /\ diags = <<>>
  /\ tfState = ""
  /\ apiKeyCfg \in ApiKeyCfgs
  /\ envKey \in EnvKeys
  /\ ppc = "init"
  /\ clientKey = ""
  /\ handler = "none"
  /\ requests = <<>>
  /\ rdiags = <<>>
  /\ written = <<>>
  /\ given = NoInput
  /\ PeerAbsent
  /\ NoVolumeRace

NextCrud ==
  \/ ValidateConfig
  \/ Configure
  \/ InstanceRead
  \/ InstanceUpdate
  \/ InstanceDelete
  \/ VolumeCreate
  \/ VolumeRead
  \/ VolumeUpdate
  \/ VolumeDelete

SpecCrud == InitCrud /\ [][NextCrud]_vars

\* ------------------------------------------------- two concurrent sessions
\* A second call of pollInstanceStatus, for another instance, running in its
\* own goroutine on the same Client.  ticker is a local of each call: a
\* receive from one session's ticker.C leaves the other session's as it is.
SharedTickerAfterReceive(c) == 0
OtherTickerAfterReceive(c) == c

\* Time passes for the second session.
PeerAdvance ==
  /\ peerPc \in {"select", "fetch", "done"}
  /\ peerPc = "select" => ~(peerCtxErr # "" \/ peerTickC = 1)
  /\ peerPc = "fetch" => now - peerFetchStart < HttpTimeout
  /\ IF peerPc = "done"
       THEN UNCHANGED <<peerTickC, peerCtxErr>>
       ELSE /\ peerTickC' = IF TickAt(now + 1, PollInterval)
                              THEN SendTick(peerTickC) ELSE peerTickC
            /\ peerCtxErr' = CtxErrAt(now + 1, peerDeadline, peerCtxErr)
  /\ UNCHANGED <<peerId, peerDeadline, peerResponses, peerPc, peerRet,
                 peerFetchCount, peerFetchStart>>

\* One time unit passes for both sessions.
AdvanceTwo == AdvanceSession /\ PeerAdvance /\ UNCHANGED mountVars

PeerCancel ==
  /\ peerPc \in {"select", "fetch"}
  /\ peerCtxErr = ""
  /\ peerCtxErr' = "context canceled"
  /\ UNCHANGED <<peerId, peerDeadline, peerResponses, peerTickC, peerPc,
                 peerRet, peerFetchCount, peerFetchStart>>
  /\ UNCHANGED <<pollVars, createVars, calls, crudVars, mountVars>>

PeerCtxDone ==
  /\ peerPc = "select"
  /\ peerCtxErr # ""
  /\ peerRet' = RetCtx(peerCtxErr)
  /\ peerPc' = "done"
  /\ UNCHANGED <<peerId, peerDeadline, peerResponses, peerTickC, peerCtxErr,
                 peerFetchCount, peerFetchStart>>
  /\ UNCHANGED <<pollVars, createVars, calls, crudVars, mountVars>>

PeerTick ==
  /\ peerPc = "select"
  /\ peerTickC = 1
  /\ peerTickC' = 0
  /\ tickC' = OtherTickerAfterReceive(tickC)
  /\ peerPc' = "fetch"
  /\ peerFetchCount' = peerFetchCount + 1
  /\ peerFetchStart' = now
  /\ UNCHANGED <<peerId, peerDeadline, peerResponses, peerCtxErr, peerRet>>
  /\ UNCHANGED <<id, name, interval, deadline, responses, now, ctxErr, pc,
                 ret, fetchCount, returned, fetchStart, fetchCtx, late,
                 cancelAt, cancelParked, doneAt>>
  /\ UNCHANGED <<createVars, calls, crudVars, mountVars>>

PeerGetInstanceReturn ==
  /\ peerPc = "fetch"
  /\ LET r == AfterFetch(ReplyAt(peerResponses, peerFetchCount), name, peerId) IN
       /\ peerRet' = r
       /\ peerPc' = PcAfter(r)
  /\ UNCHANGED <<peerId, peerDeadline, peerResponses, peerTickC, peerCtxErr,
                 peerFetchCount, peerFetchStart>>
  /\ UNCHANGED <<pollVars, createVars, calls, crudVars, mountVars>>

\* The inputs of the two sessions: an instance that becomes active, one that
\* fails, one whose status cannot be fetched, one that stays pending.
TwoSeqs ==
  {<<Str("pending"), Str("active")>>,
   <<Str("pending"), Str("pending"), Str("error")>>,
   <<ApiErr>>,
   <<Str("pending")>>}
TwoDeadlines == {MaxDeadline - 3, MaxDeadline - 1}

InitTwo ==
  /\ id = "i-1"
  /\ name \in Names
  /\ interval = PollInterval
  /\ deadline \in TwoDeadlines
  /\ responses \in TwoSeqs
  /\ now = 0
  /\ tickC = IF TickAt(0, interval) THEN SendTick(0) ELSE 0
  /\ ctxErr = CtxErrAt(0, deadline, "")
  /\ pc = "select"
  /\ ret = Running
  /\ fetchCount = 0
  /\ returned = 0
  /\ fetchStart = -1
  /\ fetchCtx = ""
  /\ late = FALSE
  /\ cancelAt = -1
  /\ cancelParked = FALSE
  /\ doneAt = -1
  /\ planTimeout = TimeoutNull
  /\ planInterval = IntervalNull
  /\ cpc = "none"
  /\ calls = <<>>
  /\ diags = <<>>
  /\ tfState = ""
  /\ ClientConfigured
  /\ NoVolumeRace
  /\ peerId = "i-2"
  /\ peerDeadline \in TwoDeadlines
  /\ peerResponses \in TwoSeqs
  /\ peerTickC = IF TickAt(0, PollInterval) THEN SendTick(0) ELSE 0
  /\ peerCtxErr = CtxErrAt(0, peerDeadline, "")
  /\ peerPc = "select"
  /\ peerRet = Running
  /\ peerFetchCount = 0
  /\ peerFetchStart = -1

NextTwo ==
  \/ AdvanceTwo
  \/ Cancel
  \/ PollCtxDone
  \/ PollTick
  \/ PollGetInstanceReturn
  \/ PeerCancel
  \/ PeerCtxDone
  \/ PeerTick
  \/ PeerGetInstanceReturn

SpecTwo == InitTwo /\ [][NextTwo]_vars

\* --------------------- volume Delete next to an instance Create that mounts
\* The two handlers run as separate calls of the provider (Terraform applies
\* independent resources in parallel, and two runs can share an account).
\* Delete is taken request by request; of Create only the CreateInstance call
\* matters, the rest of it sends GetInstance calls only.
RaceVolume == "v-1"

MountFrame == UNCHANGED <<pollVars, createVars, calls, crudVars, peerVars>>

\* What GetVolume answers for the volume: an error, or its mounted_by, which
\* for a volume that is not mounted is missing, null or "".
GetVolumeAnswers(m) ==
  {[err |-> ApiFailure, name |-> Absent, mounted_by |-> Absent]}
  \cup (IF m = ""
          THEN [err : {""}, name : {"data"}, mounted_by : {Absent, ""}]
          ELSE {[err |-> "", name |-> "data", mounted_by |-> m]})

\* VolumeResource.Delete up to the mounted check.
VolumeDeleteGetVolume ==
  /\ vdPc = "start"
  /\ \E info \in GetVolumeAnswers(mountedBy) :
       /\ wire' = Append(wire, MakeRequest(clientKey, "GetVolume", RaceVolume, NoBody, info.err))
       /\ vdSeen' = info.mounted_by
       /\ IF Returns(info.err)
            THEN /\ vdDiags' = ErrDiag("Error reading volume before delete", info.err)
                 /\ vdPc' = "done"
            ELSE IF IsMounted(info)
              THEN /\ vdDiags' = <<Diag("Error deleting volume",
                                        <<"Cannot delete volume", RaceVolume,
                                          "because it is mounted by instance",
                                          info.mounted_by>>)>>
                   /\ vdPc' = "done"
            ELSE /\ vdPc' = "checked"
                 /\ UNCHANGED vdDiags
  /\ UNCHANGED <<mountedBy, pendingMount, mountAtDelete, ciPc, ciVolumeIds>>
  /\ MountFrame

\* VolumeResource.Delete from the DeleteVolume call on.
VolumeDeleteDeleteVolume ==
  /\ vdPc = "checked"
  /\ \E err \in NoResponseErrs :
       /\ wire' = Append(wire, MakeRequest(clientKey, "DeleteVolume", RaceVolume, NoBody, err))
       /\ vdDiags' = ErrDiag("Error deleting volume", err)
  /\ mountAtDelete' = mountedBy
  /\ vdPc' = "done"
  /\ UNCHANGED <<mountedBy, pendingMount, vdSeen, ciPc, ciVolumeIds>>
  /\ MountFrame

\* InstanceResource.Create up to the return of CreateInstance, with the
\* volume_ids of the plan in the request body.
CreateInstanceWithVolumes ==
  /\ ciPc = "start"
  /\ ciPc' = "done"
  /\ \E result \in CreateReplies :
       /\ wire' = Append(wire,
            MakeRequest(clientKey, "CreateInstance", result.id,
                        {<<"volume_ids", ciVolumeIds>>}, result.err))
       /\ pendingMount' = (result.err = "" /\ result.hasId /\ RaceVolume \in ciVolumeIds)
  /\ UNCHANGED <<mountedBy, vdPc, vdSeen, vdDiags, mountAtDelete, ciVolumeIds>>
  /\ MountFrame

\* The remote side mounts the volume on the instance it accepted, at once or
\* some time later.
RemoteMounts ==
  /\ pendingMount
  /\ mountedBy = ""
  /\ mountedBy' = wire[CHOOSE n \in 1..Len(wire) : wire[n].op = "CreateInstance"].id
  /\ pendingMount' = FALSE
  /\ UNCHANGED <<vdPc, vdSeen, vdDiags, mountAtDelete, ciPc, ciVolumeIds, wire>>
  /\ MountFrame

InitMount ==
  /\ id = ""
  /\ name \in Names
  /\ interval = PollInterval
  /\ deadline = 0
  /\ responses = <<Str("active")>>
  /\ now = 0
  /\ tickC = 0
  /\ ctxErr = ""
  /\ pc = "idle"
  /\ ret = Running
  /\ fetchCount = 0
  /\ returned = 0
  /\ fetchStart = -1
  /\ fetchCtx = ""
  /\ late = FALSE
  /\ cancelAt = -1
  /\ cancelParked = FALSE
  /\ doneAt = -1
  /\ planTimeout = TimeoutNull
  /\ planInterval = IntervalNull
  /\ cpc = "none"
  /\ calls = <<>>
  /\ diags = <<>>
  /\ tfState = ""
  /\ ClientConfigured
  /\ PeerAbsent
  /\ mountedBy \in {""} \cup Ids
  /\ pendingMount = FALSE
  /\ vdPc = "start"
  /\ vdSeen = ""
  /\ vdDiags = <<>>
  /\ mountAtDelete = "-"
  /\ ciPc = "start"
  /\ ciVolumeIds \in SUBSET {RaceVolume}
  /\ wire = <<>>

NextMount ==
  \/ VolumeDeleteGetVolume
  \/ VolumeDeleteDeleteVolume
  \/ CreateInstanceWithVolumes
  \/ RemoteMounts

SpecMount == InitMount /\ [][NextMount]_vars

TypeOK ==
  /\ pc \in {"idle", "select", "fetch", "done"}
  /\ tickC \in {0, 1}
  /\ now \in 0..MaxTime
  /\ fetchCount \in 0..MaxTime
  /\ returned \in 0..MaxTime

\* ===================================================================== claims
Last == Len(responses)
GetInstanceCalls == Len(SelectSeq(calls, LAMBDA c : c[1] = "GetInstance"))
NeverCancelled == cancelAt = -1
DeadlineExceeded == "context deadline exceeded"
Canceled == "context canceled"

\* C1: a poll session produces exactly one terminal outcome: it has returned
\* exactly when its return value is one of the five outcomes, and once it has
\* returned the outcome never changes and no fetch is started.
C1_OneOutcome ==
  /\ [](pc = "done" <=> Outcome(ret) \in Outcomes)
  /\ [][ret # Running =>
          ret' = ret /\ fetchCount' = fetchCount /\ pc' = "done" /\ calls' = calls]_vars

C1_Witness ==
  pc = "done" /\ Outcome(ret) = "Failed" /\ fetchCount = 2 /\ now > doneAt

\* C2 as stated: k non-terminal statuses then "active", no cancellation and a
\* deadline later than k+1 intervals give Ready after exactly k+1 fetches.
C2_ReadyWheneverDeadlineLater ==
  (/\ responses[Last] = Str("active")
   /\ NeverCancelled
   /\ deadline > Last * interval
   /\ pc = "done")
  => (Outcome(ret) = "Ready" /\ fetchCount = Last)

\* C2 amended: k non-terminal statuses then "active", no cancellation, a
\* deadline later than k+1 intervals and every fetch back before the next tick
\* is due give Ready after exactly k+1 fetches, the last of them started at
\* tick k+1, and no fetch afterwards.
C2_ReadyAfterKPlusOne ==
  (/\ responses[Last] = Str("active")
   /\ NeverCancelled
   /\ deadline > Last * interval
   /\ ~late)
  => /\ fetchCount <= Last
     /\ GetInstanceCalls = fetchCount
     /\ pc = "done" => (ret.kind = "nil" /\ fetchCount = Last)
     /\ now > Last * interval => fetchCount = Last

C2_Witness ==
  /\ interval = 1 /\ deadline = 5
  /\ responses = <<Str("pending"), Str("pending"), Str("active")>>
  /\ NeverCancelled /\ ~late
  /\ pc = "done" /\ ret.kind = "nil" /\ fetchCount = 3 /\ now > doneAt

\* C3: when the first terminal status of the sequence is "error", the fetch
\* that reads it ends the session with Failed carrying the id given to the
\* session, and no later fetch is made.
C3_FailedCarriesId ==
  responses[Last] = Str("error")
  => /\ fetchCount <= Last
     /\ (fetchCount = Last /\ pc # "fetch")
          => (pc = "done" /\ ret = [kind |-> "state", detail |-> id])

C3_Witness ==
  /\ responses = <<Str("pending"), Str("error")>>
  /\ pc = "done" /\ ret = [kind |-> "state", detail |-> id] /\ fetchCount = 2

\* C4: when GetInstance returns an error on the N-th fetch, the session
\* returns that error at once and GetInstance is not called an (N+1)-th time.
C4_FetchErrorIsFatal ==
  responses[Last] = ApiErr
  => /\ fetchCount <= Last
     /\ GetInstanceCalls <= Last
     /\ (fetchCount = Last /\ pc # "fetch")
          => (pc = "done" /\ ret = [kind |-> "api", detail |-> ApiErr.err])

C4_Witness ==
  /\ responses = <<NoStr, ApiErr>>
  /\ pc = "done" /\ ret.kind = "api" /\ fetchCount = 2 /\ now > doneAt

\* C5: no fetch is started once the deadline has passed, and a session whose
\* deadline passed before a fetch returned a terminal status ends TimedOut.
C5_NoFetchAfterDeadline ==
  /\ fetchCount > 0 => fetchCtx # DeadlineExceeded
  /\ (pc = "done" /\ ctxErr = DeadlineExceeded) => Outcome(ret) = "TimedOut"

\* C6: when the poll session of Create ends TimedOut, Create has issued
\* DeleteInstance for the new instance by the time it returns.
C6_DeleteOnTimeout ==
  (cpc = "done" /\ Outcome(ret) = "TimedOut")
  => \E n \in 1..Len(calls) : calls[n] = <<"DeleteInstance", id>>

\* C7: a session that the caller cancelled before a fetch returned a terminal
\* status ends Cancelled.
C7_CancelGivesCancelled ==
  (pc = "done" /\ ctxErr = Canceled) => Outcome(ret) = "Cancelled"

\* C8: when the caller cancels while the session is parked in the select
\* between two ticks, the session starts no further fetch and returns
\* Cancelled no later than one poll interval after the signal.
C8_CancelWhileParked ==
  cancelParked
  => /\ pc \in {"select", "done"}
     /\ pc = "select" => now - cancelAt <= interval
     /\ pc = "done" => (/\ ret = [kind |-> "ctx", detail |-> Canceled]
                        /\ doneAt - cancelAt <= interval)

C8_Witness ==
  /\ cancelParked /\ interval = 2 /\ cancelAt = 3
  /\ fetchCount = 1 /\ pc = "done" /\ now > doneAt

\* C9: with interval 1, deadline 2 and a status that never becomes terminal,
\* the session ends TimedOut after exactly 2 fetches; stated for the
\* executions of the claim's scenario, where every fetch is back before the
\* next tick is due.
C9_ExactlyTwoFetches ==
  (/\ interval = 1 /\ deadline = 2
   /\ ~EndsSession(responses[Last])
   /\ NeverCancelled
   /\ ~late
   /\ pc = "done")
  => (Outcome(ret) = "TimedOut" /\ fetchCount = 2)

\* C10: the first fetch starts no earlier than one interval after the session
\* started, and a session whose context is done before the first interval has
\* elapsed ends with the context's error and without any fetch.
CtxDoneTime == IF cancelAt >= 0 THEN cancelAt ELSE deadline

C10_FirstTickAfterInterval ==
  /\ fetchCount > 0 => fetchStart >= interval
  /\ (ctxErr # "" /\ CtxDoneTime < interval)
       => /\ fetchCount = 0
          /\ calls = <<>>
          /\ pc \in {"select", "done"}
          /\ pc = "done" => (ret.kind = "ctx" /\ doneAt = CtxDoneTime)

C10_Witness ==
  /\ interval = 2 /\ cancelAt = 1 /\ deadline > 2
  /\ pc = "done" /\ fetchCount = 0 /\ now > interval

\* C11: a session ends Ready only if its most recent fetch returned the string
\* status "active" and Failed only if it returned "error"; a fetch that
\* returns without error any other status leaves the session polling, back in
\* the select with nothing returned.
LastReply == ReplyAt(responses, IF fetchCount = 0 THEN 1 ELSE fetchCount)

C11_TerminalOnlyOnSentinel ==
  /\ [](ret.kind = "nil" =>
          fetchCount >= 1 /\ LastReply = [err |-> "", isStr |-> TRUE, status |-> "active"])
  /\ [](ret.kind = "state" =>
          fetchCount >= 1 /\ LastReply = [err |-> "", isStr |-> TRUE, status |-> "error"])
  /\ [][(/\ pc = "fetch" /\ pc' # "fetch"
         /\ LastReply.err = ""
         /\ ~(LastReply.isStr /\ LastReply.status \in {"active", "error"}))
        => (pc' = "select" /\ ret' = Running /\ fetchCount' = fetchCount)]_vars

C11_Witness ==
  /\ responses = <<NoStr, Str("pending"), Str("active")>>
  /\ pc = "done" /\ ret.kind = "nil" /\ fetchCount = 3

\* C12: the four failure outcomes of a poll session reach the user of Create
\* as distinguishable errors: the summary reported for the outcome of this
\* session is not the summary Create reports for any other failure outcome.
PollErrors(i) ==
  {[kind |-> "ctx", detail |-> DeadlineExceeded],
   [kind |-> "ctx", detail |-> Canceled],
   [kind |-> "api", detail |-> ApiErr.err],
   [kind |-> "state", detail |-> i]}

C12_DistinctSummaries ==
  (cpc = "done" /\ Outcome(ret) \in {"FetchError", "Failed", "TimedOut", "Cancelled"})
  => \A r \in PollErrors(id) :
       Outcome(r) # Outcome(ret)
         => PollErrorDiag(id, r).summary # diags[Len(diags)].summary

\* C13: Create sets the Terraform state and reports success only after a
\* GetInstance call for the new instance id returned status "active".
ActiveObserved ==
  \E n \in 1..GetInstanceCalls : ReplyAt(responses, n) = Str("active")

C13_SuccessOnlyAfterActive ==
  /\ tfState # "" => ActiveObserved
  /\ (cpc = "done" /\ diags = <<>>) => ActiveObserved

\* C14: every poll session with a finite deadline eventually returns, given
\* that every GetInstance call returns.
C14_Terminates == <>(pc = "done")

\* A session that no answer of the remote side ends, returned on its deadline.
C14_Witness ==
  /\ pc = "done"
  /\ Outcome(ret) = "TimedOut"
  /\ \A n \in 1..Len(responses) : ~EndsSession(responses[n])
  /\ fetchCount > 0

\* C15: the GetInstance calls of a session are strictly sequential: at most one
\* is in flight, and a call starts only when every earlier call has returned
\* and the answer to the previous one did not end the session.
C15_FetchesSequential ==
  /\ [](fetchCount - returned \in {0, 1})
  /\ []((fetchCount - returned = 1) <=> (pc = "fetch"))
  /\ [][fetchCount' # fetchCount =>
          /\ fetchCount' = fetchCount + 1
          /\ returned = fetchCount
          /\ fetchCount > 0 =>
               AfterFetch(ReplyAt(responses, fetchCount), name, id) = Running]_vars

\* A second call started after the first one returned a non-terminal status.
C15_Witness ==
  /\ fetchCount = 2
  /\ returned = 1
  /\ pc = "fetch"
  /\ ~EndsSession(ReplyAt(responses, 1))

\* C16: two poll sessions for different ids running concurrently do not
\* interfere.  Every step of the two together is, for each session, either no
\* step at all or a step that session takes when it runs alone, and the Client
\* they share is not changed: what a session returns and the number of
\* GetInstance calls it starts are what it can return and start alone with
\* the same answers, deadline and cancellation.
C16_NoInterference ==
  /\ [][\/ UNCHANGED <<pollVars, calls>>
        \/ AdvanceSession
        \/ Cancel
        \/ PollCtxDone
        \/ PollTick
        \/ PollGetInstanceReturn]_vars
  /\ [][\/ UNCHANGED peerVars
        \/ PeerAdvance
        \/ PeerCancel
        \/ PeerCtxDone
        \/ PeerTick
        \/ PeerGetInstanceReturn]_vars
  /\ [][clientKey' = clientKey]_vars
  /\ [](id # peerId)

\* Both sessions ran to an end of their own, after fetches of both.
C16_Witness ==
  /\ pc = "done"
  /\ peerPc = "done"
  /\ Outcome(ret) = "Ready"
  /\ Outcome(peerRet) = "Failed"
  /\ fetchCount = 2
  /\ peerFetchCount = 3

\* C17: the handlers instance Read, Update, Delete and volume Create, Read,
\* Delete are one-shot: no API call is sent twice in an invocation, and a call
\* that failed is the last one sent, is reported as the error of the handler,
\* and no state is set.
OneShotHandlers ==
  {"InstanceRead", "InstanceUpdate", "InstanceDelete",
   "VolumeCreate", "VolumeRead", "VolumeDelete"}

C17_OneShot ==
  handler \in OneShotHandlers =>
    /\ \A i, j \in 1..Len(requests) : requests[i].op = requests[j].op => i = j
    /\ \A i \in 1..Len(requests) :
         requests[i].err # "" =>
           /\ i = Len(requests)
           /\ written = <<>>
           /\ Len(rdiags) = 1
           /\ rdiags[1].detail = <<"unexpected error:", requests[i].err>>

\* Update whose first call, UpdateInstance, failed.
C17_Witness ==
  /\ handler = "InstanceUpdate"
  /\ Len(requests) = 1
  /\ requests[1].op = "UpdateInstance"
  /\ requests[1].err # ""
  /\ written = <<>>

\* C19: a configuration whose api_key is null or unknown is rejected and one
\* whose api_key is a string, "" included, is accepted; the client then sends
\* the configured api_key when it is not empty and the value of
\* SHADEFORM_API_KEY when it is "".
C19_ApiKeySource ==
  /\ ppc = "rejected" => apiKeyCfg.kind \in {"null", "unknown"}
  /\ ppc \in {"valid", "configured"} => apiKeyCfg.kind = "known"
  /\ ppc = "configured" =>
       clientKey = (IF apiKeyCfg.value # "" THEN apiKeyCfg.value ELSE envKey)
  /\ \A i \in 1..Len(requests) :
       requests[i].key = (IF apiKeyCfg.value # "" THEN apiKeyCfg.value ELSE envKey)

\* api_key = "" with the environment variable set: the request carries the
\* key of the environment.
C19_Witness ==
  /\ apiKeyCfg = [kind |-> "known", value |-> ""]
  /\ envKey = "key-env"
  /\ Len(requests) > 0
  /\ requests[1].key = "key-env"

\* C18 as stated: the poll session of Create uses 15 s and 3600 s when nothing
\* is configured, and the interval and the deadline the caller asks for when
\* the caller asks for one.
C18_BothOverridable ==
  cpc = "poll" =>
    /\ interval * UnitSec =
         (IF planInterval.set THEN planInterval.value * UnitSec ELSE 15)
    /\ deadline * UnitSec =
         (IF planTimeout.set THEN planTimeout.value * UnitSec ELSE 3600)

\* C18: the poll session of Create always uses a poll interval of 15 s,
\* whatever the caller asks for; its deadline is the create timeout of the
\* plan when one is set and 3600 s otherwise.
C18_IntervalFixedDeadlineOverridable ==
  cpc = "poll" =>
    /\ interval * UnitSec = 15
    /\ deadline * UnitSec =
         (IF planTimeout.set THEN planTimeout.value * UnitSec ELSE 3600)

\* A session started with a configured create timeout by a caller who would
\* like another interval.
C18_Witness ==
  /\ cpc = "poll"
  /\ planTimeout.set
  /\ planTimeout.value = 3
  /\ deadline = 3
  /\ planInterval.set
  /\ planInterval.value # interval

\* C20: when Create returns with an error after CreateInstance succeeded, it
\* has set no Terraform state, has sent no DeleteInstance, and the failing
\* step is the last thing it sent: after a failed poll the calls are
\* CreateInstance and the GetInstance calls of the poll, after a failed read
\* back one GetInstance more; nothing is sent or set afterwards.
CreateFailedAfterCreateInstance ==
  /\ cpc = "done"
  /\ diags # <<>>
  /\ diags[1].summary # "Error creating instance"

C21_NoCatchUpFetches ==
  /\ fetchCount * interval <= now
  /\ tickC <= 1

\* A call outlasted two ticks; the second call started on the one tick that
\* was kept, and the session is behind the ticker.
C21_Witness ==
  /\ late
  /\ interval = 1
  /\ fetchCount = 2
  /\ now = 4
  /\ pc = "select"
  /\ tickC = 1

\* C22: a GetInstance answer without a string "status" is a non-terminal
\* status: the call that got it returns nothing and raises no error, and the
\* session goes back to the select.
C22_MissingStatusKeepsPolling ==
  /\ [][(pc = "fetch" /\ pc' # "fetch"
          /\ ReplyAt(responses, fetchCount) =
               [err |-> "", isStr |-> FALSE, status |-> ""])
        => (pc' = "select" /\ ret' = [kind |-> "running", detail |-> ""])]_vars
  /\ [](ret.kind \in {"nil", "state", "api"} =>
          ReplyAt(responses, fetchCount) #
            [err |-> "", isStr |-> FALSE, status |-> ""])

\* An answer without a status, then "active": Ready on the second call.
C22_Witness ==
  /\ Len(responses) = 2
  /\ responses[1] = [err |-> "", isStr |-> FALSE, status |-> ""]
  /\ pc = "done"
  /\ Outcome(ret) = "Ready"
  /\ fetchCount = 2

\* C23: volume Delete sends DeleteVolume only after its GetVolume succeeded
\* and reported mounted_by as absent, null, not a string or ""; when the read
\* failed or reported a non-empty mounted_by, Delete reports an error and
\* sends no DeleteVolume.
C23_DeleteOnlyUnmounted ==
  handler = "VolumeDelete" =>
    /\ requests[1].op = "GetVolume"
    /\ (\E n \in 1..Len(requests) : requests[n].op = "DeleteVolume") =>
         /\ given.info.err = ""
         /\ given.info.mounted_by \in {"<absent>", ""}
    /\ (given.info.err # "" \/ given.info.mounted_by \notin {"<absent>", ""}) =>
         /\ Len(requests) = 1
         /\ Len(rdiags) = 1

\* The read reported the volume mounted by i-1: an error, and no DeleteVolume.
C23_Witness ==
  /\ handler = "VolumeDelete"
  /\ given.info.err = ""
  /\ given.info.mounted_by = "i-1"
  /\ Len(requests) = 1
  /\ rdiags # <<>>
  /\ rdiags[1].summary = "Error deleting volume"

\* C24: the provider never sends DeleteVolume for a volume that is mounted by
\* an instance at the moment the request is sent, whatever a concurrent
\* instance Create that mounts the volume does.
C24_NoDeleteWhileMounted ==
  mountAtDelete \in {"-", ""}

\* C25: in Create every GetInstance comes after the CreateInstance call, which
\* returned a string id, and uses that id; when CreateInstance failed or its
\* response had no string id, Create starts no poll session, sends nothing
\* more and sets no state.
C25_GetAfterCreateWithItsId ==
  /\ [](\A n \in 1..Len(calls) :
          calls[n][1] = "GetInstance" =>
            /\ n > 1
            /\ calls[1] = <<"CreateInstance", "">>
            /\ id \in Ids
            /\ calls[n][2] = id)
  /\ []((cpc = "done" /\ diags # <<>>
          /\ diags[1].summary = "Error creating instance") =>
            /\ pc = "idle"
            /\ fetchCount = 0
            /\ calls = <<<<"CreateInstance", "">>>>
            /\ tfState = "")
  /\ [][(cpc = "start" /\ cpc' = "poll") => (id' \in Ids /\ pc' = "select")]_vars

\* CreateInstance answered without a string id, and Create returned.
C25_Witness ==
  /\ cpc = "done"
  /\ diags # <<>>
  /\ diags[1].detail = <<"Could not extract instance ID from response">>
  /\ Len(calls) = 1

UpdateCallsOnceBodyNameOnly ==
  /\ requests[1].op = "UpdateInstance"
  /\ requests[1].id = given.state.id
  /\ \A n \in 2..Len(requests) : requests[n].op # "UpdateInstance"
  /\ requests[1].body =
       (IF given.plan.name # given.state.name
          THEN {<<"name", given.plan.name>>} ELSE {})
  /\ written # <<>> =>
       /\ Len(requests) = 2
       /\ requests[2].op = "GetInstance"
       /\ requests[1].err = ""
       /\ requests[2].err = ""
       /\ Len(written) = 1
       /\ written[1].id = given.state.id

C27_StateFromGetInstance ==
  handler = "InstanceUpdate" =>
    /\ UpdateCallsOnceBodyNameOnly
    /\ written # <<>> =>
         /\ written[1].name = given.info.name
         /\ written[1].cloud = given.info.cloud

\* C27: as above, but an attribute takes the value GetInstance returned only
\* when the response holds it as a string; one the response lacks keeps the
\* planned value.
C27_StateFromGetInstanceWhenPresent ==
  handler = "InstanceUpdate" =>
    /\ UpdateCallsOnceBodyNameOnly
    /\ written # <<>> =>
         /\ written[1].name =
              (IF given.info.name # "<absent>"
                 THEN given.info.name ELSE given.plan.name)
         /\ written[1].cloud =
              (IF given.info.cloud # "<absent>"
                 THEN given.info.cloud ELSE given.plan.cloud)

\* Nothing changed in the plan: UpdateInstance is sent with an empty body, and
\* the state takes the name and the cloud GetInstance returned.
C27_Witness ==
  /\ handler = "InstanceUpdate"
  /\ given.plan.name = given.state.name
  /\ requests[1].body = {}
  /\ written # <<>>
  /\ given.info.cloud = "gcp"
  /\ written[1].cloud = "gcp"
  /\ given.info.name # given.plan.name
  /\ written[1].name = given.info.name

====
